---- MODULE Spec2Model ----
(***************************************************************************)
(* RegexStringBuilder (src/RegexBuilder/regex_builder.py) driven by a      *)
(* caller: either an arbitrary client making a bounded number of calls, or *)
(* the script src/example.py.                                              *)
(*                                                                         *)
(* A Python str is a sequence of one-character strings.  An optional       *)
(* argument is a sequence of length 0 (None / omitted) or 1 (given).       *)
(***************************************************************************)
EXTENDS Integers, Sequences, FiniteSets, TLC

VARIABLES
    regex_string,       \* self.regex_string
    regex_flags,        \* self.regex_flags, a list of str
    previous_methods,   \* self.previous_methods
    stdout,             \* the lines print() has written
    caller,             \* "any": an arbitrary client; "example": src/example.py
    history             \* one record per call made so far, oldest first

vars == <<regex_string, regex_flags, previous_methods, stdout, caller, history>>

\* ---------------------------------------------------------------- bounds

\* An arbitrary client makes at most MaxOps calls, build included.
MaxOps == 2

\* ------------------------------------------------------------ input sets

None == <<>>
Some(x) == <<x>>

\* The element strings an arbitrary client passes: "a" and "\s".
Elements == { <<"a">>, <<"\\", "s">> }
OptElements == {None} \cup {Some(e) : e \in Elements}
\* The numbers it passes (one and two decimal digits).
Counts == {2, 10}
OptCounts == {None} \cup {Some(n) : n \in Counts}

\* ----------------------------------------------------- string primitives

Digit == <<"0", "1", "2", "3", "4", "5", "6", "7", "8", "9">>

\* str(n) for a natural number n, as the f-strings format it.
RECURSIVE str(_)
str(n) == IF n < 10 THEN <<Digit[n + 1]>> ELSE str(n \div 10) \o <<Digit[(n % 10) + 1]>>

\* sep.join(items) for a list of str.
RECURSIVE join(_, _)
join(sep, items) ==
    IF items = <<>> THEN <<>>
    ELSE IF Len(items) = 1 THEN items[1]
    ELSE items[1] \o sep \o join(sep, Tail(items))

\* list(s): the one-character strings of s, as `list += str` appends them.
chars(s) == [i \in 1..Len(s) |-> <<s[i]>>]

\* The text not_set_of prints.
AdvisoryMessage ==
    "This pattern is equivalent to \\S, please consider using it (call the  match_non_whitespace method) if you want less verbosity."

\* ------------------------------------------------------------ the caller

\* The chain of src/example.py, one record per call.
ExampleChain == <<
    [op |-> "match_literal",            args |-> << <<"h", "t", "t", "p">> >>],
    [op |-> "optional_character",       args |-> << <<"s">> >>],
    [op |-> "match_previous_or_this",   args |-> << <<"f", "t", "p">> >>],
    [op |-> "either_word_or_substring", args |-> << None >>],
    [op |-> "match_literal",            args |-> << <<":", "/", "/">> >>],
    [op |-> "not_set_of",               args |-> << <<"\\", "s", "/", "$", ".", "?", "#">> >>],
    [op |-> "match_any_character",      args |-> << None, FALSE >>],
    [op |-> "match_non_whitespace",     args |-> << >>],
    [op |-> "zero_or_more",             args |-> << None >>],
    [op |-> "match_exactly",            args |-> << None >>],
    [op |-> "build",                    args |-> << >>] >>

\* The caller is about to call op.
Invoked(op) ==
    \/ /\ caller = "any"
       /\ Len(history) < MaxOps
    \/ /\ caller = "example"
       /\ Len(history) < Len(ExampleChain)
       /\ ExampleChain[Len(history) + 1].op = op

\* The values the caller passes as the i-th argument of op: an arbitrary
\* client draws from `any`, the example script passes what it spells out.
Arg(op, i, any) ==
    IF caller = "any" THEN any
    ELSE IF Len(history) < Len(ExampleChain) /\ ExampleChain[Len(history) + 1].op = op
         THEN {ExampleChain[Len(history) + 1].args[i]}
         ELSE {}

\* The call op(args) ends with `outcome`: "self" (returned the builder),
\* "str" (returned the string `result`), or the name of the exception raised.
Return(op, args, outcome, result) ==
    history' = Append(history,
        [op |-> op, args |-> args,
         pre_string |-> regex_string, pre_flags |-> regex_flags,
         post_string |-> regex_string', post_flags |-> regex_flags',
         printed |-> SubSeq(stdout', Len(stdout) + 1, Len(stdout')),
         outcome |-> outcome, result |-> result])

\* ----------------------------------------------------------- the builder

Init ==
    /\ regex_string = <<>>
    /\ regex_flags = <<>>
    /\ previous_methods = <<>>
    /\ stdout = <<>>
    /\ caller \in {"any", "example"}
    /\ history = <<>>

\* self.regex_string += text; return self
Appends(op, args, text) ==
    /\ Invoked(op)
    /\ regex_string' = regex_string \o text
    /\ UNCHANGED <<regex_flags, previous_methods, stdout, caller>>
    /\ Return(op, args, "self", <<>>)

\* The call raises before it changes anything.
Raises(op, args, exception) ==
    /\ Invoked(op)
    /\ UNCHANGED <<regex_string, regex_flags, previous_methods, stdout, caller>>
    /\ Return(op, args, exception, <<>>)

\* The names bound at module level in regex_builder.py: the class alone (the
\* file has no `import re`).
ModuleGlobals == {"RegexStringBuilder"}

\* _add_flag: self.regex_flags.append(flag), reached through
\* `return self._add_flag(...)`, so the caller gets None.
_add_flag(op, flag) ==
    /\ Invoked(op)
    /\ regex_flags' = Append(regex_flags, flag)
    /\ UNCHANGED <<regex_string, previous_methods, stdout, caller>>
    /\ Return(op, <<>>, "None", <<>>)

\* A flag method: `return self._add_flag(re.X)`.  The argument is evaluated
\* first, and looking up the global name `re` raises NameError when the module
\* does not bind it.
FlagMethod(op, flag) ==
    IF "re" \in ModuleGlobals THEN _add_flag(op, flag) ELSE Raises(op, <<>>, "NameError")

case_insensitive == FlagMethod("case_insensitive", <<"re.IGNORECASE">>)

multiline == FlagMethod("multiline", <<"re.MULTILINE">>)

match_any_character(character, match_newlines) ==
    /\ Invoked("match_any_character")
    /\ regex_string' = regex_string \o (IF character = None THEN <<".">> ELSE <<".">> \o character[1])
    /\ regex_flags' = IF match_newlines
                      THEN regex_flags \o chars(<<"|", " ", "R", "e", ".", "D", "O", "T", "A", "L", "L">>)
                      ELSE regex_flags
    /\ UNCHANGED <<previous_methods, stdout, caller>>
    /\ Return("match_any_character", <<character, match_newlines>>, "self", <<>>)

match_newlines == FlagMethod("match_newlines", <<"re.DOTALL">>)

as_unicode == FlagMethod("as_unicode", <<"re.UNICODE">>)

as_ascii == FlagMethod("as_ascii", <<"re.ASCII">>)

debug_mode == FlagMethod("debug_mode", <<"re.DEBUG">>)

one_or_more(element) ==
    Appends("one_or_more", <<element>>,
            IF element = None THEN <<"+">> ELSE element[1] \o <<"+">>)

zero_or_more(element) ==
    Appends("zero_or_more", <<element>>,
            IF element = None THEN <<"*">> ELSE element[1] \o <<"*">>)

\* self._add_postfix is not an attribute of the class: the lookup raises.
zero_or_one(element) == Raises("zero_or_one", <<element>>, "AttributeError")

\* self._add_prefix is not an attribute of the class: the lookup raises on
\* both branches.
starting_with(element) == Raises("starting_with", <<element>>, "AttributeError")

ending_with(element) ==
    Appends("ending_with", <<element>>,
            IF element = None THEN <<"$">> ELSE element[1] \o <<"$">>)

\* match_exactly as it would be if the element branch wrapped the buffer too.
match_exactly_wraps(element) ==
    /\ Invoked("match_exactly")
    /\ regex_string' = IF element = None
                       THEN <<"^">> \o regex_string \o <<"$">>
                       ELSE <<"^">> \o regex_string \o element[1] \o <<"$">>
    /\ UNCHANGED <<regex_flags, previous_methods, stdout, caller>>
    /\ Return("match_exactly", <<element>>, "self", <<>>)

match_exactly(element) ==
    /\ Invoked("match_exactly")
    /\ regex_string' = IF element = None
                       THEN <<>> \o (<<"^">> \o regex_string \o <<"$">>)
                       ELSE regex_string \o (<<"^">> \o element[1] \o <<"$">>)
    /\ UNCHANGED <<regex_flags, previous_methods, stdout, caller>>
    /\ Return("match_exactly", <<element>>, "self", <<>>)

\* either_word_or_substring as it would be if the no-element branch appended
\* an empty group to the buffer instead of wrapping the buffer.
either_word_or_substring_appends(element) ==
    /\ Invoked("either_word_or_substring")
    /\ regex_string' = IF element = None
                       THEN regex_string \o <<"(", ")">>
                       ELSE regex_string \o (<<"(">> \o element[1] \o <<")">>)
    /\ UNCHANGED <<regex_flags, previous_methods, stdout, caller>>
    /\ Return("either_word_or_substring", <<element>>, "self", <<>>)

either_word_or_substring(element) ==
    /\ Invoked("either_word_or_substring")
    /\ regex_string' = IF element = None
                       THEN <<"(">> \o regex_string \o <<")">>
                       ELSE regex_string \o (<<"(">> \o element[1] \o <<")">>)
    /\ UNCHANGED <<regex_flags, previous_methods, stdout, caller>>
    /\ Return("either_word_or_substring", <<element>>, "self", <<>>)

match_either_or(element1, element2) ==
    Appends("match_either_or", <<element1, element2>>, element1 \o <<"|">> \o element2)

match_previous_or_this(element) ==
    Appends("match_previous_or_this", <<element>>, <<"|">> \o element)

set_of(element) ==
    Appends("set_of", <<element>>, <<"[">> \o element \o <<"]">>)

\* f"{{{n}, {m}}}"; m defaults to the empty string.
match_from_n_to_m_occurrences(n, m) ==
    Appends("match_from_n_to_m_occurrences", <<n, m>>,
            <<"{">> \o str(n) \o <<",", " ">> \o (IF m = None THEN <<>> ELSE str(m[1])) \o <<"}">>)

match_literal(element) ==
    Appends("match_literal", <<element>>, element)

escape(element) ==
    Appends("escape", <<element>>, <<"\\">> \o element)

match_all_words ==
    Appends("match_all_words", <<>>, <<"\\", "b", "\\", "w", "+", "\\", "b">>)

match_all_words_and_digits ==
    Appends("match_all_words_and_digits", <<>>,
            <<"\\", "b", "\\", "w", "*", "\\", "d", "*", "\\", "w", "+", "\\", "b">>)

match_all_digits ==
    Appends("match_all_digits", <<>>, <<"\\", "d", "+">>)

\* f'\\b\\w{{{n},}}\\b'
match_words_up_to_n_chars(n) ==
    Appends("match_words_up_to_n_chars", <<n>>,
            <<"\\", "b", "\\", "w", "{">> \o str(n) \o <<",", "}", "\\", "b">>)

match_all_chars ==
    Appends("match_all_chars", <<>>, <<"\\", "S">>)

optional_character(char) ==
    Appends("optional_character", <<char>>, char \o <<"?">>)

\* not_set_of as it would be if the advisory branch returned early.
not_set_of_halts(element) ==
    /\ Invoked("not_set_of")
    /\ stdout' = IF element = <<"\\", "s">> THEN Append(stdout, AdvisoryMessage) ELSE stdout
    /\ regex_string' = IF element = <<"\\", "s">>
                       THEN regex_string
                       ELSE regex_string \o (<<"[", "^">> \o element \o <<"]">>)
    /\ UNCHANGED <<regex_flags, previous_methods, caller>>
    /\ Return("not_set_of", <<element>>, "self", <<>>)

not_set_of(element) ==
    /\ Invoked("not_set_of")
    /\ stdout' = IF element = <<"\\", "s">> THEN Append(stdout, AdvisoryMessage) ELSE stdout
    /\ regex_string' = regex_string \o (<<"[", "^">> \o element \o <<"]">>)
    /\ UNCHANGED <<regex_flags, previous_methods, caller>>
    /\ Return("not_set_of", <<element>>, "self", <<>>)

match_non_whitespace ==
    Appends("match_non_whitespace", <<>>, <<"\\", "S">>)

\* _apply_changes as it would be without its `if self.regex_flags:` guard.
_apply_changes_unguarded == "AttributeError"

\* _apply_changes: the exception it raises, "" when it returns.  With flags
\* present it joins them (every flag a reachable state holds is a str, so
\* the join succeeds) and then looks up self._add_to_regex_string, which is
\* not an attribute of the class.
_apply_changes ==
    IF regex_flags # <<>> THEN "AttributeError" ELSE ""

build ==
    /\ Invoked("build")
    /\ UNCHANGED <<regex_string, regex_flags, previous_methods, stdout, caller>>
    /\ IF _apply_changes = ""
       THEN Return("build", <<>>, "str", regex_string)
       ELSE Return("build", <<>>, _apply_changes, <<>>)

Next ==
    \/ case_insensitive
    \/ multiline
    \/ match_newlines
    \/ as_unicode
    \/ as_ascii
    \/ debug_mode
    \/ \E element \in Arg("one_or_more", 1, OptElements) : one_or_more(element)
    \/ \E element \in Arg("zero_or_more", 1, OptElements) : zero_or_more(element)
    \/ \E element \in Arg("zero_or_one", 1, Elements) : zero_or_one(element)
    \/ \E element \in Arg("starting_with", 1, OptElements) : starting_with(element)
    \/ \E element \in Arg("ending_with", 1, OptElements) : ending_with(element)
    \/ \E character \in Arg("match_any_character", 1, OptElements) :
         \E newlines \in Arg("match_any_character", 2, BOOLEAN) :
            match_any_character(character, newlines)
    \/ \E element \in Arg("match_exactly", 1, OptElements) : match_exactly(element)
    \/ \E element \in Arg("either_word_or_substring", 1, OptElements) :
         either_word_or_substring(element)
    \/ \E element1 \in Arg("match_either_or", 1, Elements) :
         \E element2 \in Arg("match_either_or", 2, Elements) :
            match_either_or(element1, element2)
    \/ \E element \in Arg("match_previous_or_this", 1, Elements) :
         match_previous_or_this(element)
    \/ \E element \in Arg("set_of", 1, Elements) : set_of(element)
    \/ \E n \in Arg("match_from_n_to_m_occurrences", 1, Counts) :
         \E m \in Arg("match_from_n_to_m_occurrences", 2, OptCounts) :
            match_from_n_to_m_occurrences(n, m)
    \/ \E element \in Arg("match_literal", 1, Elements) : match_literal(element)
    \/ \E element \in Arg("escape", 1, Elements) : escape(element)
    \/ match_all_words
    \/ match_all_words_and_digits
    \/ match_all_digits
    \/ \E n \in Arg("match_words_up_to_n_chars", 1, Counts) : match_words_up_to_n_chars(n)
    \/ match_all_chars
    \/ \E char \in Arg("optional_character", 1, Elements) : optional_character(char)
    \/ \E element \in Arg("not_set_of", 1, Elements) : not_set_of(element)
    \/ match_non_whitespace
    \/ build

Spec == Init /\ [][Next]_vars

\* ================================================================ claims

Calls == DOMAIN history
Last == history[Len(history)]
Errors == {"NameError", "AttributeError"}
FlagOps == {"case_insensitive", "multiline", "match_newlines", "as_unicode", "as_ascii", "debug_mode"}
OptionalElementOps ==
    {"one_or_more", "zero_or_more", "starting_with", "ending_with",
     "match_any_character", "match_exactly", "either_word_or_substring"}

IsPrefix(p, s) == Len(p) <= Len(s) /\ SubSeq(s, 1, Len(p)) = p
\* What a call left after the text the buffer held before it.
Added(c) == SubSeq(c.post_string, Len(c.pre_string) + 1, Len(c.post_string))
\* The call asks for a flag.
RequestsFlag(c) ==
    \/ c.op \in FlagOps
    \/ c.op = "match_any_character" /\ c.args[2]
\* "(?" + "|".join(flags) + ")"
FlagGroup(flags) == <<"(", "?">> \o join(<<"|">>, flags) \o <<")">>

RECURSIVE Repeat(_, _)
Repeat(s, k) == IF k = 0 THEN <<>> ELSE s \o Repeat(s, k - 1)

\* The operation table of the specification: the buffer after the call c on
\* the buffer `buffer`.
TableEffect(buffer, c) ==
    LET opt(i) == IF c.args[i] = None THEN <<>> ELSE c.args[i][1] IN
    CASE c.op = "one_or_more" -> buffer \o opt(1) \o <<"+">>
      [] c.op = "zero_or_more" -> buffer \o opt(1) \o <<"*">>
      [] c.op = "zero_or_one" -> buffer \o c.args[1] \o <<"?">>
      [] c.op = "starting_with" ->
            IF c.args[1] = None THEN <<"^">> \o buffer ELSE buffer \o <<"^">> \o opt(1)
      [] c.op = "ending_with" -> buffer \o opt(1) \o <<"$">>
      [] c.op = "match_any_character" -> buffer \o <<".">> \o opt(1)
      [] c.op = "match_exactly" ->
            IF c.args[1] = None THEN <<"^">> \o buffer \o <<"$">>
            ELSE buffer \o <<"^">> \o opt(1) \o <<"$">>
      [] c.op = "either_word_or_substring" ->
            IF c.args[1] = None THEN <<"(">> \o buffer \o <<")">>
            ELSE buffer \o <<"(">> \o opt(1) \o <<")">>
      [] c.op = "match_either_or" -> buffer \o c.args[1] \o <<"|">> \o c.args[2]
      [] c.op = "match_previous_or_this" -> buffer \o <<"|">> \o c.args[1]
      [] c.op = "set_of" -> buffer \o <<"[">> \o c.args[1] \o <<"]">>
      [] c.op = "match_from_n_to_m_occurrences" ->
            buffer \o <<"{">> \o str(c.args[1]) \o <<",", " ">>
                   \o (IF c.args[2] = None THEN <<>> ELSE str(c.args[2][1])) \o <<"}">>
      [] c.op = "match_literal" -> buffer \o c.args[1]
      [] c.op = "escape" -> buffer \o <<"\\">> \o c.args[1]
      [] c.op = "match_all_words" -> buffer \o <<"\\", "b", "\\", "w", "+", "\\", "b">>
      [] c.op = "match_all_words_and_digits" ->
            buffer \o <<"\\", "b", "\\", "w", "*", "\\", "d", "*", "\\", "w", "+", "\\", "b">>
      [] c.op = "match_all_digits" -> buffer \o <<"\\", "d", "+">>
      [] c.op = "match_words_up_to_n_chars" ->
            buffer \o <<"\\", "b", "\\", "w", "{">> \o str(c.args[1]) \o <<",", "}", "\\", "b">>
      [] c.op \in {"match_all_chars", "match_non_whitespace"} -> buffer \o <<"\\", "S">>
      [] c.op = "optional_character" -> buffer \o c.args[1] \o <<"?">>
      [] c.op = "not_set_of" -> buffer \o <<"[", "^">> \o c.args[1] \o <<"]">>
      [] OTHER -> buffer

\* The table's transformations of the first n calls, applied in order to "".
RECURSIVE TableOutput(_)
TableOutput(n) == IF n = 0 THEN <<>> ELSE TableEffect(TableOutput(n - 1), history[n])

\* C1: every build() on a builder that holds at least one flag returns
\* "(?" + the flags joined with "|" + ")" + the buffer held before the call.
C1_BuildReturnsFlagGroupAndBuffer ==
    \A i \in Calls :
        (history[i].op = "build" /\ history[i].pre_flags # <<>>) =>
            /\ history[i].outcome = "str"
            /\ history[i].result = FlagGroup(history[i].pre_flags) \o history[i].pre_string

\* C2: no call of any public operation ends in an exception.
C2_NoOperationRaises ==
    \A i \in Calls : history[i].outcome \notin Errors

\* C3: a build() that follows only mutator calls, none of them asking for a
\* flag, returns the string the operation table gives for those calls applied
\* in order to the empty string.
C3_ChainEqualsTable ==
    \A i \in Calls :
        (/\ history[i].op = "build"
         /\ \A j \in 1..(i - 1) : history[j].op # "build" /\ ~RequestsFlag(history[j])) =>
            /\ history[i].outcome = "str"
            /\ history[i].result = TableOutput(i - 1)

\* The pattern ^(https?|ftp)://[^\s/$.?#].\S*$
ExamplePattern ==
    <<"^", "(", "h", "t", "t", "p", "s", "?", "|", "f", "t", "p", ")", ":", "/", "/",
      "[", "^", "\\", "s", "/", "$", ".", "?", "#", "]", ".", "\\", "S", "*", "$">>

\* C4: the chain of the documented example, run on a fresh builder, ends with
\* build() returning exactly ^(https?|ftp)://[^\s/$.?#].\S*$
C4_ExampleChainPattern ==
    (caller = "example" /\ Len(history) = Len(ExampleChain)) =>
        /\ \A i \in Calls : history[i].op = ExampleChain[i].op
        /\ Last.outcome = "str"
        /\ Last.result = ExamplePattern

C4_ExampleChainBuilt ==
    /\ caller = "example"
    /\ Len(history) = Len(ExampleChain)
    /\ Last.op = "build"
    /\ Len(Last.result) = 31

\* C5: build() on a builder that holds no flag returns the buffer as it was
\* before the call and leaves the buffer and the flag set as they were.
C5_BuildWithoutFlagsReturnsBuffer ==
    \A i \in Calls :
        (history[i].op = "build" /\ history[i].pre_flags = <<>>) =>
            /\ history[i].outcome = "str"
            /\ history[i].result = history[i].pre_string
            /\ history[i].post_string = history[i].pre_string
            /\ history[i].post_flags = history[i].pre_flags

C5_BuiltNonEmptyBufferWithoutFlags ==
    \E i \in Calls :
        /\ history[i].op = "build"
        /\ history[i].pre_flags = <<>>
        /\ history[i].pre_string # <<>>
        /\ history[i].result # <<>>

\* C6: every flag operation appends exactly one token to the flag set, and the
\* flag set holds one token per flag asked for, none removed.
C6_FlagOperationsAppendOneToken ==
    /\ \A i \in Calls :
          history[i].op \in FlagOps =>
              /\ Len(history[i].post_flags) = Len(history[i].pre_flags) + 1
              /\ IsPrefix(history[i].pre_flags, history[i].post_flags)
    /\ \A i \in Calls : IsPrefix(history[i].pre_flags, history[i].post_flags)
    /\ Len(regex_flags) = Cardinality({i \in Calls : RequestsFlag(history[i])})

C8_NotSetOfAdvisoryDoesNotHalt ==
    \A i \in Calls :
        history[i].op = "not_set_of" =>
            /\ history[i].outcome = "self"
            /\ history[i].post_string =
                  history[i].pre_string \o <<"[", "^">> \o history[i].args[1] \o <<"]">>
            /\ history[i].post_flags = history[i].pre_flags
            /\ history[i].printed =
                  IF history[i].args[1] = <<"\\", "s">> THEN <<AdvisoryMessage>> ELSE <<>>

C8_AdvisoryPrinted ==
    \E i \in Calls :
        /\ history[i].op = "not_set_of"
        /\ history[i].args[1] = <<"\\", "s">>
        /\ history[i].printed # <<>>
        /\ history[i].pre_string # <<>>

\* The first call of the run of consecutive build() calls that ends at call i.
RunStart(i) ==
    CHOOSE s \in 1..i :
        /\ \A j \in s..i : history[j].op = "build"
        /\ s = 1 \/ history[s - 1].op # "build"

\* C9: on a builder that holds flags, the k-th of k consecutive build() calls
\* returns k copies of the flag group followed by the buffer held before the
\* first of them, and no build() changes the flag set.
C9_RepeatedBuildPrependsAgain ==
    \A i \in Calls :
        (history[i].op = "build" /\ history[i].pre_flags # <<>>) =>
            /\ history[i].outcome = "str"
            /\ history[i].result =
                  Repeat(FlagGroup(history[i].pre_flags), i - RunStart(i) + 1)
                      \o history[RunStart(i)].pre_string
            /\ history[i].post_flags = history[i].pre_flags

\* C10: match_any_character appends "." or "." + character; with the newline
\* flag set it adds exactly one token to the flag set, the token
\* match_newlines adds, and without it it leaves the flag set alone.
C10_MatchAnyCharacterRegistersDotAll ==
    \A i \in Calls :
        history[i].op = "match_any_character" =>
            /\ history[i].post_string =
                  history[i].pre_string \o <<".">>
                      \o (IF history[i].args[1] = None THEN <<>> ELSE history[i].args[1][1])
            /\ IF history[i].args[2]
               THEN /\ Len(history[i].post_flags) = Len(history[i].pre_flags) + 1
                    /\ IsPrefix(history[i].pre_flags, history[i].post_flags)
                    /\ \A j \in Calls :
                          history[j].op = "match_newlines" =>
                              /\ Len(history[j].post_flags) = Len(history[j].pre_flags) + 1
                              /\ history[j].post_flags[Len(history[j].post_flags)]
                                    = history[i].post_flags[Len(history[i].post_flags)]
               ELSE history[i].post_flags = history[i].pre_flags

====
